---- MODULE Spec2Model ----
(***************************************************************************)
(* Model of the draw cache of src/src/app/api/lotto/route.ts: the served   *)
(* GET handler, the single-flight updateCache, the latest-draw locator     *)
(* findLatestDraw, the worker pool of fetchRange and the retrying          *)
(* fetchDraw.                                                              *)
(*                                                                         *)
(* Every `await` of the source is a point where the event loop may run     *)
(* something else, so every async function is modelled as the steps        *)
(* between its awaits.  The attempts of one fetchDraw call touch nothing   *)
(* that is shared, so in Spec a fetchDraw call is one step, from the       *)
(* request to the resumption of its caller, over every way the upstream    *)
(* can answer its attempts; FetchSpec runs one call attempt by attempt.    *)
(* LocSpec runs findLatestDraw alone, E2ESpec the served read against a    *)
(* scripted upstream, and RankSpec one buildRanking call.                  *)
(*                                                                         *)
(* Scaling.  The numeric constants of the source are scaled down so that   *)
(* the state space is finite and small; their order is kept                *)
(* (BLOCK_TTL_MS < CACHE_TTL_MS, the default probe < MAX_DRAW_GUESS).       *)
(* Time is counted in abstract units instead of milliseconds.              *)
(***************************************************************************)
EXTENDS Integers, Sequences, FiniteSets

\* ------------------------------------------------------------------------
\* Program constants (scaled)
\* ------------------------------------------------------------------------

\* route.ts:20  CACHE_TTL_MS = 12 h
CACHE_TTL_MS == 2

\* route.ts:24  BLOCK_TTL_MS = 15 min
BLOCK_TTL_MS == 1

\* route.ts:21  MAX_DRAW_GUESS = 10000
MAX_DRAW_GUESS == 4

\* route.ts:127  the literal 1100: the probe used when cache.latest is 0
DEFAULT_PROBE == 2

\* route.ts:22  CONCURRENCY = 6
CONCURRENCY == 2

\* route.ts:23  RETRIES = 2
RETRIES == 2

\* route.ts:241  the literal 45: the numbers a ball can carry
BallCount == 45

\* ------------------------------------------------------------------------
\* Bounds of the model
\* ------------------------------------------------------------------------

\* The clock stops at MaxNow.
MaxNow == 4

\* Number of GET requests that can await the inFlight promise at a time.
MaxWaiting == 2

\* RankSpec: the number of draws buildRanking is given at most.
MaxDraws == 3

Workers == 1..CONCURRENCY
DrawNos == 1..MAX_DRAW_GUESS

\* The optional fields of Cache: undefined, or a value.
Undefined == <<>>
Some(v) == <<v>>
Value(opt) == opt[1]

Min(a, b) == IF a <= b THEN a ELSE b
Max(a, b) == IF a >= b THEN a ELSE b

VARIABLES
    now,          \* Date.now()
    upN,          \* the upstream publishes the draws 1..upN
    cache,        \* globalThis.__lottoCache
    waiting,      \* the number of GET requests awaiting the inFlight promise
    served,       \* what the last answered GET request got: "ok" or "error"
    sync,         \* the async body of updateCache (the inFlight promise)
    loc,          \* the locals of the running findLatestDraw
    call,         \* FetchSpec: one fetchDraw call, attempt by attempt
    rng,          \* the fetchRange of the running sync and its workers
    orphan,       \* workers of a rejected fetchRange that are still running
    locatorRuns,  \* observer: findLatestDraw calls since the last sync ended
    anomalyAt,    \* observer: when a sync last saw an anomalous response (0: never)
    scripted,     \* whether the upstream is the one of the end-to-end scenario
    ranked        \* RankSpec: one buildRanking call, its arguments and result

vars == <<now, upN, cache, waiting, served, sync, loc, call, rng, orphan,
          locatorRuns, anomalyAt, scripted, ranked>>

\* ------------------------------------------------------------------------
\* Upstream Client: fetchJson and fetchDrawOnce
\* ------------------------------------------------------------------------

\* What one HTTP exchange can turn out to be.
\*   success    a JSON body with returnValue "success" and the seven number
\*              fields as numbers of 1..45
\*   nonsuccess a JSON body without the success flag
\*   nan        the success flag with a number field that is not a number
\*   blank      the success flag with a number field that is null
\*   beyond     the success flag with a bonus number above 45
\*   timeout    the AbortController fired
\*   http       a non-2xx status
\*   malformed  a body that is neither markup nor JSON
\*   html       a body that starts with "<"
ClientOutcomes ==
    {"success", "nonsuccess", "nan", "blank", "beyond", "timeout", "http",
     "malformed", "html"}

\* The exchanges that carry a JSON body with the success flag.
SuccessFlagged == {"success", "nan", "blank", "beyond"}

\* The exchanges the upstream can answer draw `no` with.  A draw that does
\* not exist is never answered with the success flag.  The upstream of the
\* end-to-end scenario is scripted: the draws 1..upN are answered with their
\* payload, draw upN + 1 with markup and every other number with a body
\* without the success flag.
UpstreamOutcomes(no) ==
    IF scripted
    THEN IF no <= upN THEN {"success"}
         ELSE IF no = upN + 1 THEN {"html"} ELSE {"nonsuccess"}
    ELSE IF no <= upN THEN ClientOutcomes \ {"nonsuccess"}
         ELSE ClientOutcomes \ SuccessFlagged

\* The values a field of the parsed JSON body can have: a number, a string
\* that is not the text of a number, null, or undefined (no such field).
JsonNumber(n) == [type |-> "number", v |-> n]
JsonText == [type |-> "string", v |-> 0]
JsonNull == [type |-> "null", v |-> 0]
JsonUndefined == [type |-> "undefined", v |-> 0]

\* The parsed JSON body of an exchange that has one.
Payload(outcome) ==
    IF outcome \notin SuccessFlagged
    THEN [returnValue |-> "fail",
          drwtNo |-> [i \in 1..6 |-> JsonUndefined],
          bnusNo |-> JsonUndefined]
    ELSE [returnValue |-> "success",
          drwtNo |-> [i \in 1..6 |->
                        IF i = 1 /\ outcome = "nan" THEN JsonText
                        ELSE IF i = 1 /\ outcome = "blank" THEN JsonNull
                        ELSE JsonNumber(i * 7)],
          bnusNo |-> IF outcome = "beyond" THEN JsonNumber(BallCount + 1)
                     ELSE JsonNumber(BallCount)]

\* Number(value) of JavaScript: null converts to 0, undefined and a string
\* that is not the text of a number to NaN.
Number(value) ==
    CASE value.type = "number" -> [isNaN |-> FALSE, v |-> value.v]
      [] value.type = "null" -> [isNaN |-> FALSE, v |-> 0]
      [] OTHER -> [isNaN |-> TRUE, v |-> 0]

\* No Draw.
NoDraw == [numbers |-> <<>>, bonus |-> 0]

\* fetchJson: the parsed body, or the name of the error it throws.  Every
\* error that is not the HtmlResponseError is named "Error" here: the callers
\* only ever compare the name with "HtmlResponseError".
fetchJson(outcome) ==
    CASE outcome = "timeout" -> [throws |-> "Error", body |-> Payload(outcome)]
      [] outcome = "http" -> [throws |-> "Error", body |-> Payload(outcome)]
      [] outcome = "html" ->
           [throws |-> "HtmlResponseError", body |-> Payload(outcome)]
      [] outcome = "malformed" ->
           [throws |-> "Error", body |-> Payload(outcome)]
      [] OTHER -> [throws |-> "none", body |-> Payload(outcome)]

\* fetchDrawOnce: "draw" with the Draw, "null", or the error of fetchJson
\* passed on.
fetchDrawOnce(outcome) ==
    LET data == fetchJson(outcome)
        numbers == [i \in 1..6 |-> Number(data.body.drwtNo[i])]
        bonus == Number(data.body.bnusNo)
    IN  IF data.throws # "none"
        THEN [throws |-> data.throws, value |-> "none", draw |-> NoDraw]
        ELSE IF data.body.returnValue # "success"
        THEN [throws |-> "none", value |-> "null", draw |-> NoDraw]
        ELSE IF (\E i \in 1..6 : numbers[i].isNaN) \/ bonus.isNaN
        THEN [throws |-> "none", value |-> "null", draw |-> NoDraw]
        ELSE [throws |-> "none", value |-> "draw",
              draw |-> [numbers |-> [i \in 1..6 |-> numbers[i].v],
                        bonus |-> bonus.v]]

\* ------------------------------------------------------------------------
\* Draw Fetcher: one fetchDraw call
\* ------------------------------------------------------------------------

\* No call.
NoCall ==
    [no |-> 0, attempt |-> 0, calls |-> 0, delays |-> 0, phase |-> "none",
     result |-> "none", lastError |-> "none", answer |-> "none"]

\* fetchDraw(no) up to its first await: attempt 0 has called the Client.
\* `calls` counts the Client calls and `delays` the backoff timers of the
\* call; `answer` is the last answer of the upstream (FetchSpec records it).
FetchDrawStart(no) ==
    [no |-> no, attempt |-> 0, calls |-> 1, delays |-> 0, phase |-> "request",
     result |-> "pending", lastError |-> "none", answer |-> "none"]

\* Mutant of FetchDrawCatch: the HtmlResponseError is retried like any other.
FetchDrawCatch_RetryAll(k, name) ==
    [k EXCEPT !.lastError = name, !.phase = "backoff", !.delays = k.delays + 1]

\* The catch block of fetchDraw, for the error named `name`.  The result of
\* a call that throws is the name of the error.
FetchDrawCatch(k, name) ==
    IF name = "HtmlResponseError"
    THEN [k EXCEPT !.phase = "settled", !.result = name]
    ELSE [k EXCEPT !.lastError = name, !.phase = "backoff",
                      !.delays = k.delays + 1]

\* fetchDrawOnce, tabulated over the exchanges.
Once == [outcome \in ClientOutcomes |-> fetchDrawOnce(outcome)]

\* The Client's answer to the pending attempt arrives.
FetchDrawRespond(k, outcome) ==
    LET once == Once[outcome] IN
    IF once.throws = "none"
    THEN [k EXCEPT !.phase = "settled", !.result = once.value]
    ELSE FetchDrawCatch(k, once.throws)

\* Mutant of FetchDrawLoopTest: one attempt short.
FetchDrawLoopTest_OffByOne(attempt) == attempt < RETRIES

\* The loop test of fetchDraw.
FetchDrawLoopTest(attempt) == attempt <= RETRIES

\* The backoff timer fires: the next attempt, or the end of the loop.
FetchDrawTimer(k) ==
    IF FetchDrawLoopTest(k.attempt + 1)
    THEN [k EXCEPT !.attempt = k.attempt + 1, !.calls = k.calls + 1,
                      !.phase = "request"]
    ELSE [k EXCEPT !.attempt = k.attempt + 1, !.phase = "settled",
                      !.result = "null"]

Pending(k) == k.phase = "request"
Sleeping(k) == k.phase = "backoff"
Settled(k) == k.phase = "settled"

\* Every way fetchDraw can end from `k`, over the answers of the upstream.
RECURSIVE FetchDrawRun(_)
FetchDrawRun(k) ==
    IF Settled(k) THEN {k}
    ELSE IF Sleeping(k) THEN FetchDrawRun(FetchDrawTimer(k))
    ELSE UNION {FetchDrawRun(k2) :
                   k2 \in {FetchDrawRespond(k, outcome) :
                              outcome \in UpstreamOutcomes(k.no)}}

\* fetchDraw(no): what it can resolve to ("draw", "null") or throw (the
\* name of the error).
fetchDraw(no) == {k.result : k \in FetchDrawRun(FetchDrawStart(no))}

Throws(result) == result \notin {"draw", "null"}


\* ------------------------------------------------------------------------
\* Latest-Draw Locator: findLatestDraw
\* ------------------------------------------------------------------------

\* No locator running.  `no` is the draw number of the fetchDraw the locator
\* awaits.  `exact` and `upN` observe the run: whether every answer so far
\* agreed with the predicate n <= upN of the upstream as it was when the
\* locator started.
NoLoc ==
    [phase |-> "none", probe |-> 0, low |-> 0, high |-> 0, no |-> 0,
     ret |-> 0, error |-> "none", exact |-> TRUE, upN |-> 0]

\* The probe of findLatestDraw.
Seed == IF cache.latest > 0 THEN cache.latest ELSE DEFAULT_PROBE

\* findLatestDraw up to its first await.
findLatestDrawStart ==
    [NoLoc EXCEPT !.phase = "probe", !.probe = Seed, !.no = Seed, !.upN = upN]

\* findLatestDraw returns.
LocReturn(l, value) ==
    [l EXCEPT !.phase = "returned", !.ret = value, !.no = 0]

\* Mutant of LocDownLoop: returns the lower end of the closed interval.
LocDownLoop_ReturnsLow(l) ==
    IF l.low <= l.high
    THEN [l EXCEPT !.phase = "down", !.no = (l.low + l.high) \div 2]
    ELSE LocReturn(l, Max(1, l.low))

\* The downward binary search, from its loop test.
LocDownLoop(l) ==
    IF l.low <= l.high
    THEN [l EXCEPT !.phase = "down", !.no = (l.low + l.high) \div 2]
    ELSE LocReturn(l, Max(1, l.high))

\* Mutant of LocBisectLoop: the loop test of the downward search.
LocBisectLoop_Closed(l) ==
    IF l.low <= l.high
    THEN [l EXCEPT !.phase = "bisect", !.no = (l.low + l.high) \div 2]
    ELSE LocReturn(l, l.low)

\* The final binary search, from its loop test.
LocBisectLoop(l) ==
    IF l.low + 1 < l.high
    THEN [l EXCEPT !.phase = "bisect", !.no = (l.low + l.high) \div 2]
    ELSE LocReturn(l, l.low)

\* The doubling loop, from its loop test.
LocDoubleLoop(l) ==
    IF l.high <= MAX_DRAW_GUESS
    THEN [l EXCEPT !.phase = "double", !.no = l.high]
    ELSE LocBisectLoop(l)

\* Mutant of DoubleCapped: no ceiling.
DoubleCapped_NoCeiling(n) == n * 2

\* Math.min(n * 2, MAX_DRAW_GUESS): the next upper bound of the doubling.
DoubleCapped(n) == Min(n * 2, MAX_DRAW_GUESS)

\* findLatestDraw resumes with the result of the fetchDraw(l.no) it awaited:
\* found is TRUE for a Draw and FALSE for null.
findLatestDrawResume(l, found) ==
    CASE l.phase = "probe" ->
           IF ~found
           THEN LocDownLoop([l EXCEPT !.low = 1, !.high = l.probe])
           ELSE LocDoubleLoop([l EXCEPT !.low = l.probe,
                                  !.high = DoubleCapped(l.probe)])
      [] l.phase = "down" ->
           IF found
           THEN LocDownLoop([l EXCEPT !.low = l.no + 1])
           ELSE LocDownLoop([l EXCEPT !.high = l.no - 1])
      [] l.phase = "double" ->
           IF found
           THEN LET m == [l EXCEPT !.low = l.high,
                                   !.high = DoubleCapped(l.high)]
                IN  IF m.low = MAX_DRAW_GUESS
                    THEN LocReturn(m, m.low)
                    ELSE LocDoubleLoop(m)
           ELSE LocBisectLoop(l)
      [] l.phase = "bisect" ->
           IF found
           THEN LocBisectLoop([l EXCEPT !.low = l.no])
           ELSE LocBisectLoop([l EXCEPT !.high = l.no])

\* findLatestDraw resumes with the error the fetchDraw it awaited threw:
\* nothing catches it.
findLatestDrawThrow(l, name) ==
    [l EXCEPT !.phase = "thrown", !.error = name, !.no = 0]

\* Whether the result of fetchDraw(no) is what no <= n says it should be.
Truthful(no, result, n) == IF no <= n THEN result = "draw" ELSE result = "null"

\* ------------------------------------------------------------------------
\* Bounded Range Fetcher: fetchRange and its workers
\* ------------------------------------------------------------------------

\* No fetchRange.  workers[w] is the draw number whose fetchDraw worker w
\* awaits, 0 once the worker has returned.  `before`, `notFound` and `alone`
\* observe the run: the keys of cache.draws when it started, the numbers
\* fetchDraw resolved to null for, and whether no worker of an earlier,
\* rejected fetchRange was still running when it started.
NoRange ==
    [start |-> 0, end |-> 0, current |-> 0, missing |-> <<>>,
     workers |-> [w \in Workers |-> 0], rejected |-> FALSE,
     before |-> {}, notFound |-> {}, alone |-> TRUE]

\* Workers that have not returned.
Active(g) == {w \in Workers : g.workers[w] # 0}

\* Mutant of WorkerLoop: the counter is not advanced.
WorkerLoop_NoAdvance(g, w) ==
    IF g.current > g.end
    THEN [g EXCEPT !.workers[w] = 0]
    ELSE [g EXCEPT !.workers[w] = g.current]

\* The head of a worker's loop: claim the next number, or return.
WorkerLoop(g, w) ==
    IF g.current > g.end
    THEN [g EXCEPT !.workers[w] = 0]
    ELSE [g EXCEPT !.current = g.current + 1, !.workers[w] = g.current]

\* Array.from runs every worker, in order, up to its first await.
RECURSIVE SpawnWorkers(_, _)
SpawnWorkers(g, w) ==
    IF w > CONCURRENCY THEN g ELSE SpawnWorkers(WorkerLoop(g, w), w + 1)

\* fetchRange(start, end, cache, missing) up to its await of Promise.all.
fetchRangeStart(start, end) ==
    SpawnWorkers([NoRange EXCEPT !.start = start, !.end = end,
                                 !.current = start, !.before = cache.draws,
                                 !.alone = (Active(orphan) = {})], 1)

\* A worker resumes with the Draw its fetchDraw resolved to; cache.draws.set
\* is the caller's part.
WorkerDraw(g, w) == WorkerLoop(g, w)

\* Mutant of WorkerNull: the number is not recorded.
WorkerNull_NotRecorded(g, w) == WorkerLoop(g, w)

\* A worker resumes with the null its fetchDraw resolved to.
WorkerNull(g, w) ==
    WorkerLoop([g EXCEPT !.missing = Append(g.missing, g.workers[w])], w)

\* A worker resumes with the error its fetchDraw threw: the worker's promise
\* rejects, and with it Promise.all.
WorkerThrow(g, w) == [g EXCEPT !.workers[w] = 0, !.rejected = TRUE]

\* Promise.all(workers) has resolved.
AllReturned(g) == Active(g) = {} /\ ~g.rejected

\* A rejected fetchRange: nothing reads its missing list any more.
Forget(g) ==
    IF Active(g) = {} THEN NoRange
    ELSE [g EXCEPT !.missing = <<>>, !.before = {}, !.notFound = {},
                   !.alone = TRUE]

\* ------------------------------------------------------------------------
\* Ranking builder: buildRanking
\* ------------------------------------------------------------------------

\* How often `num` occurs in what buildRanking counts of one Draw.
Occurrences(draw, num, includeBonus) ==
    Cardinality({i \in 1..Len(draw.numbers) : draw.numbers[i] = num})
    + (IF includeBonus /\ draw.bonus = num THEN 1 ELSE 0)

\* The counting pass of buildRanking over the draws, for one number.
RECURSIVE CountOf(_, _, _)
CountOf(draws, num, includeBonus) ==
    IF draws = {} THEN 0
    ELSE LET draw == CHOOSE d \in draws : TRUE
         IN  Occurrences(draw, num, includeBonus)
             + CountOf(draws \ {draw}, num, includeBonus)

\* counts[num - 1] is undefined for a number that is not of 1..BallCount, and
\* the increment of its count throws a TypeError.
CountingThrows(draws, includeBonus) ==
    \E draw \in draws :
        \/ \E i \in 1..Len(draw.numbers) : draw.numbers[i] \notin 1..BallCount
        \/ includeBonus /\ draw.bonus \notin 1..BallCount

\* Mutant of Compare: the counts ascending.
Compare_Ascending(a, b) ==
    IF b.count # a.count THEN a.count - b.count ELSE a.num - b.num

\* The comparator of the sort: negative when a goes before b.
Compare(a, b) ==
    IF b.count # a.count THEN b.count - a.count ELSE a.num - b.num

\* Array.prototype.sort with the comparator: a stable insertion sort.
RECURSIVE Insert(_, _)
Insert(sorted, item) ==
    IF sorted = <<>> THEN <<item>>
    ELSE IF Compare(sorted[Len(sorted)], item) <= 0
    THEN Append(sorted, item)
    ELSE Append(Insert(SubSeq(sorted, 1, Len(sorted) - 1), item),
                sorted[Len(sorted)])

RECURSIVE SortFrom(_, _, _)
SortFrom(items, i, sorted) ==
    IF i > Len(items) THEN sorted
    ELSE SortFrom(items, i + 1, Insert(sorted, items[i]))

\* ranking.slice(from, to).map((item) => item.num)
SliceNums(ranking, from, to) ==
    [i \in 1..(Min(to, Len(ranking)) - from) |-> ranking[from + i].num]

\* No result of buildRanking.
NoRanking ==
    [throws |-> FALSE, counts |-> <<>>, ranking |-> <<>>, top6 |-> <<>>,
     next6 |-> <<>>, top18 |-> <<>>, hasData |-> FALSE]

\* buildRanking(draws, includeBonus)
buildRanking(draws, includeBonus) ==
    IF CountingThrows(draws, includeBonus)
    THEN [NoRanking EXCEPT !.throws = TRUE]
    ELSE LET counts == [n \in 1..BallCount |->
                          [num |-> n,
                           count |-> CountOf(draws, n, includeBonus)]]
             ranking == SortFrom(counts, 1, <<>>)
             maxCount == IF Len(ranking) > 0 THEN ranking[1].count ELSE 0
         IN  [throws |-> FALSE, counts |-> counts, ranking |-> ranking,
              top6 |-> SliceNums(ranking, 0, 6),
              next6 |-> SliceNums(ranking, 6, 12),
              top18 |-> SliceNums(ranking, 0, 18),
              hasData |-> maxCount > 0]

\* No buildRanking call.
NoRanked == [draws |-> {}, includeBonus |-> FALSE, out |-> Undefined]

\* ------------------------------------------------------------------------
\* Cache Coordinator: getCache, updateCache and GET
\* ------------------------------------------------------------------------

\* getCache: the cache as constructed.
getCache ==
    [updatedAt |-> 0, latest |-> 0, draws |-> {}, missing |-> Undefined,
     inFlight |-> FALSE, blockedUntil |-> Undefined]

\* The body of updateCache: where it stands, and its local `latest`.
NoSync == [pc |-> "idle", latest |-> 0]


\* Mutant of ClearInFlight: the handle is left in place.
ClearInFlight_Keeps(c) == c

\* The finally block of updateCache.
ClearInFlight(c) == [c EXCEPT !.inFlight = FALSE]

\* Mutant of JoinsInFlight: the promise in flight is never joined.
JoinsInFlight_Never == FALSE

\* The test updateCache starts with: a sync is in progress.
JoinsInFlight == cache.inFlight

\* Mutant of IsFresh: the cache is never taken for fresh.
IsFresh_Never == FALSE

\* The freshness test of GET.
IsFresh == now - cache.updatedAt < CACHE_TTL_MS

\* The test of the blocked branch of updateCache.
IsBlocked ==
    cache.blockedUntil # Undefined /\ now < Value(cache.blockedUntil)

\* The start of the range updateCache fetches.
RangeStart == IF cache.latest > 0 THEN cache.latest + 1 ELSE 1

\* The end of a sync that ran to completion.
Complete(c, latest, missing) ==
    [c EXCEPT !.latest = latest, !.updatedAt = now,
              !.missing = Some(missing)]

\* Mutant of Block: updatedAt is not refreshed.
Block_NoRefresh(c) == [c EXCEPT !.blockedUntil = Some(now + BLOCK_TTL_MS)]

\* The catch block of updateCache for the HtmlResponseError.
Block(c) ==
    [c EXCEPT !.blockedUntil = Some(now + BLOCK_TTL_MS), !.updatedAt = now]

\* null, or a value, in the JSON of the response.
Null == [isNull |-> TRUE, v |-> 0]
NotNull(v) == [isNull |-> FALSE, v |-> v]

\* The fields of the response GET builds from readyCache that depend on the
\* sync.  The model keeps the keys of cache.draws only; every cached Draw
\* carries six numbers, so the greatest count is positive exactly when a
\* draw is cached.
Response(c) ==
    [latestDraw |-> c.latest,
     totalDraws |-> Cardinality(c.draws),
     hasData |-> c.draws # {},
     missingDraws |-> IF c.missing = Undefined THEN <<>> ELSE Value(c.missing),
     apiBlockedUntil |-> IF c.blockedUntil = Undefined THEN Null
                         ELSE NotNull(Value(c.blockedUntil))]

Init ==
    /\ now = CACHE_TTL_MS
    /\ upN = 1
    /\ cache = getCache
    /\ waiting = 0
    /\ served = "none"
    /\ sync = NoSync
    /\ loc = NoLoc
    /\ call = NoCall
    /\ rng = NoRange
    /\ orphan = NoRange
    /\ locatorRuns = 0
    /\ anomalyAt = 0
    /\ scripted = FALSE
    /\ ranked = NoRanked

\* Time passes.
Tick ==
    /\ UNCHANGED <<scripted, ranked>>
    /\ now < MaxNow
    /\ now' = now + 1
    /\ UNCHANGED <<upN, cache, waiting, served, sync, loc, call, rng, orphan,
                   locatorRuns, anomalyAt>>

\* The upstream publishes the next draw.
Publish ==
    /\ UNCHANGED <<scripted, ranked>>
    /\ upN < MAX_DRAW_GUESS
    /\ upN' = upN + 1
    /\ UNCHANGED <<now, cache, waiting, served, sync, loc, call, rng, orphan,
                   locatorRuns, anomalyAt>>

\* A GET request arrives and runs up to its first await, or to its response.
\* The blocked branch of updateCache settles the inFlight promise at once.
GET ==
    /\ UNCHANGED <<scripted, ranked>>
    /\ IF IsFresh
       THEN /\ served' = "ok"
            /\ UNCHANGED <<cache, waiting, sync, loc, locatorRuns>>
       ELSE IF JoinsInFlight
       THEN /\ waiting < MaxWaiting
            /\ waiting' = waiting + 1
            /\ UNCHANGED <<cache, served, sync, loc, locatorRuns>>
       ELSE IF IsBlocked
       THEN /\ cache' = ClearInFlight([cache EXCEPT !.updatedAt = now])
            /\ served' = "ok"
            /\ locatorRuns' = 0
            /\ UNCHANGED <<waiting, sync, loc>>
       ELSE /\ cache' = [cache EXCEPT !.inFlight = TRUE]
            /\ waiting' = 1
            /\ sync' = [pc |-> "locate", latest |-> 0]
            /\ loc' = findLatestDrawStart
            /\ locatorRuns' = Min(locatorRuns + 1, 2)
            /\ UNCHANGED served
    /\ UNCHANGED <<now, upN, call, rng, orphan, anomalyAt>>

\* The fetchDraw the locator awaits settles, and findLatestDraw resumes.
LocFetched ==
    /\ UNCHANGED <<scripted, ranked>>
    /\ loc.no # 0
    /\ \E r \in fetchDraw(loc.no) :
          loc' = IF Throws(r)
                 THEN [findLatestDrawThrow(loc, r) EXCEPT !.exact = FALSE]
                 ELSE [findLatestDrawResume(loc, r = "draw") EXCEPT
                          !.exact = /\ loc.exact
                                    /\ upN = loc.upN
                                    /\ Truthful(loc.no, r, loc.upN)]
    /\ UNCHANGED <<now, upN, cache, waiting, served, sync, call, rng, orphan,
                   locatorRuns, anomalyAt>>

\* updateCache resumes after findLatestDraw has returned or thrown.
SyncAfterLocate ==
    /\ UNCHANGED <<scripted, ranked>>
    /\ sync.pc = "locate"
    /\ loc.phase \in {"returned", "thrown"}
    /\ loc' = NoLoc
    /\ IF loc.phase = "thrown"
       THEN /\ cache' = ClearInFlight(IF loc.error = "HtmlResponseError"
                                      THEN Block(cache) ELSE cache)
            /\ served' = IF loc.error = "HtmlResponseError"
                          THEN "ok" ELSE "error"
            /\ waiting' = 0
            /\ locatorRuns' = 0
            /\ anomalyAt' = IF loc.error = "HtmlResponseError"
                            THEN now ELSE anomalyAt
            /\ sync' = NoSync
            /\ rng' = rng
       ELSE IF RangeStart <= loc.ret
       THEN /\ rng' = fetchRangeStart(RangeStart, loc.ret)
            /\ sync' = [pc |-> "range", latest |-> loc.ret]
            /\ UNCHANGED <<cache, waiting, served, locatorRuns, anomalyAt>>
       ELSE /\ cache' = ClearInFlight(Complete(cache, loc.ret, <<>>))
            /\ served' = "ok"
            /\ waiting' = 0
            /\ locatorRuns' = 0
            /\ sync' = NoSync
            /\ UNCHANGED <<rng, anomalyAt>>
    /\ UNCHANGED <<now, upN, call, orphan>>

\* The fetchDraw worker w awaits settles, and the worker resumes.  When it
\* throws, Promise.all rejects, fetchRange throws inside the body of
\* updateCache, where nothing catches it, and the inFlight promise rejects;
\* the other workers run on.  At most one rejected fetchRange has workers
\* still running: a fetchDraw of this one throws only once they are done.
RngFetched(w) ==
    /\ UNCHANGED <<scripted, ranked>>
    /\ rng.workers[w] # 0
    /\ \E r \in fetchDraw(rng.workers[w]) :
          IF Throws(r)
          THEN /\ Active(orphan) = {}
               /\ rng' = NoRange
               /\ orphan' = Forget(WorkerThrow(rng, w))
               /\ cache' = ClearInFlight(cache)
               /\ served' = "error"
               /\ waiting' = 0
               /\ sync' = NoSync
               /\ locatorRuns' = 0
               /\ anomalyAt' = IF r = "HtmlResponseError"
                               THEN now ELSE anomalyAt
          ELSE IF r = "draw"
          THEN /\ cache' = [cache EXCEPT !.draws = @ \cup {rng.workers[w]}]
               /\ rng' = WorkerDraw(rng, w)
               /\ UNCHANGED <<waiting, served, sync, orphan, locatorRuns,
                              anomalyAt>>
          ELSE /\ rng' = [WorkerNull(rng, w) EXCEPT
                             !.notFound = @ \cup {rng.workers[w]}]
               /\ UNCHANGED <<cache, waiting, served, sync, orphan,
                              locatorRuns, anomalyAt>>
    /\ UNCHANGED <<now, upN, loc, call>>

\* updateCache resumes after fetchRange has returned.
SyncAfterRange ==
    /\ UNCHANGED <<scripted, ranked>>
    /\ sync.pc = "range"
    /\ AllReturned(rng)
    /\ cache' = ClearInFlight(Complete(cache, sync.latest, rng.missing))
    /\ served' = "ok"
    /\ waiting' = 0
    /\ sync' = NoSync
    /\ rng' = NoRange
    /\ locatorRuns' = 0
    /\ UNCHANGED <<now, upN, loc, call, orphan, anomalyAt>>

\* The fetchDraw a worker of a rejected fetchRange awaits settles, and the
\* worker resumes: it goes on as if nothing had happened, and a second
\* rejection of Promise.all is ignored.
OrphanFetched(w) ==
    /\ UNCHANGED <<scripted, ranked>>
    /\ orphan.workers[w] # 0
    /\ \E r \in fetchDraw(orphan.workers[w]) :
          IF Throws(r)
          THEN /\ orphan' = Forget(WorkerThrow(orphan, w))
               /\ UNCHANGED cache
          ELSE IF r = "draw"
          THEN /\ cache' = [cache EXCEPT !.draws = @ \cup {orphan.workers[w]}]
               /\ orphan' = Forget(WorkerDraw(orphan, w))
          ELSE /\ orphan' = Forget(WorkerNull(orphan, w))
               /\ UNCHANGED cache
    /\ UNCHANGED <<now, upN, waiting, served, sync, loc, call, rng,
                   locatorRuns, anomalyAt>>

Next ==
    \/ Tick
    \/ Publish
    \/ GET
    \/ LocFetched
    \/ SyncAfterLocate
    \/ \E w \in Workers : RngFetched(w)
    \/ SyncAfterRange
    \/ \E w \in Workers : OrphanFetched(w)

Spec == Init /\ [][Next]_vars

\* ------------------------------------------------------------------------
\* LocSpec: findLatestDraw alone, from every seed and every upstream
\* ------------------------------------------------------------------------

LocInit ==
    /\ now = CACHE_TTL_MS
    /\ upN \in DrawNos
    /\ \E seed \in 0..MAX_DRAW_GUESS :
          cache = [getCache EXCEPT !.latest = seed, !.inFlight = TRUE]
    /\ waiting = 1
    /\ served = "none"
    /\ sync = [pc |-> "locate", latest |-> 0]
    /\ loc = findLatestDrawStart
    /\ call = NoCall
    /\ rng = NoRange
    /\ orphan = NoRange
    /\ locatorRuns = 1
    /\ anomalyAt = 0
    /\ scripted = FALSE
    /\ ranked = NoRanked

LocNext == LocFetched

LocSpec == LocInit /\ [][LocNext]_vars

\* ------------------------------------------------------------------------
\* FetchSpec: one fetchDraw call, attempt by attempt
\* ------------------------------------------------------------------------

FetchInit ==
    /\ now = CACHE_TTL_MS
    /\ upN \in DrawNos
    /\ cache = getCache
    /\ waiting = 0
    /\ served = "none"
    /\ sync = NoSync
    /\ loc = NoLoc
    /\ call \in {FetchDrawStart(no) : no \in DrawNos}
    /\ rng = NoRange
    /\ orphan = NoRange
    /\ locatorRuns = 0
    /\ anomalyAt = 0
    /\ scripted = FALSE
    /\ ranked = NoRanked

\* The upstream answers the pending attempt.
FetchRespond ==
    /\ UNCHANGED <<scripted, ranked>>
    /\ Pending(call)
    /\ \E outcome \in UpstreamOutcomes(call.no) :
          call' = [FetchDrawRespond(call, outcome) EXCEPT !.answer = outcome]
    /\ UNCHANGED <<now, upN, cache, waiting, served, sync, loc, rng, orphan,
                   locatorRuns, anomalyAt>>

\* The backoff timer fires.
FetchTimer ==
    /\ UNCHANGED <<scripted, ranked>>
    /\ Sleeping(call)
    /\ call' = FetchDrawTimer(call)
    /\ UNCHANGED <<now, upN, cache, waiting, served, sync, loc, rng, orphan,
                   locatorRuns, anomalyAt>>

FetchNext == FetchRespond \/ FetchTimer

FetchSpec == FetchInit /\ [][FetchNext]_vars

\* ------------------------------------------------------------------------
\* E2ESpec: the served read against the upstream of the end-to-end scenario
\* ------------------------------------------------------------------------

\* The upstream holds the draws 1..upN and answers every request for draw
\* upN + 1 with markup.  The process has just started, or its cache holds
\* the draws 1..upN from a sync that ran CACHE_TTL_MS ago.
E2EInit ==
    /\ now = CACHE_TTL_MS
    /\ upN \in 1..(MAX_DRAW_GUESS - 1)
    /\ cache \in {getCache,
                  [getCache EXCEPT !.latest = upN, !.draws = 1..upN,
                                   !.missing = Some(<<>>)]}
    /\ waiting = 0
    /\ served = "none"
    /\ sync = NoSync
    /\ loc = NoLoc
    /\ call = NoCall
    /\ rng = NoRange
    /\ orphan = NoRange
    /\ locatorRuns = 0
    /\ anomalyAt = 0
    /\ scripted = TRUE
    /\ ranked = NoRanked

E2ENext == Tick \/ GET \/ LocFetched \/ SyncAfterLocate

E2ESpec == E2EInit /\ [][E2ENext]_vars

\* ------------------------------------------------------------------------
\* RankSpec: one buildRanking call over sample draws
\* ------------------------------------------------------------------------

\* The numbers the sample draws are made of.
SampleBalls == {1, 2, 3, 23, 43, 44, 45}

\* The elements of a set of numbers, ascending.
RECURSIVE Ascending(_)
Ascending(S) ==
    IF S = {} THEN <<>>
    ELSE LET least == CHOOSE n \in S : \A m \in S : n <= m
         IN  <<least>> \o Ascending(S \ {least})

\* One sample Draw for each ball: the ball is its bonus number and the six
\* others are its numbers.
SampleDraws ==
    {[drwNo |-> b, numbers |-> Ascending(SampleBalls \ {b}), bonus |-> b] :
        b \in SampleBalls}

RankInit ==
    /\ now = CACHE_TTL_MS
    /\ upN = 1
    /\ cache = getCache
    /\ waiting = 0
    /\ served = "none"
    /\ sync = NoSync
    /\ loc = NoLoc
    /\ call = NoCall
    /\ rng = NoRange
    /\ orphan = NoRange
    /\ locatorRuns = 0
    /\ anomalyAt = 0
    /\ scripted = FALSE
    /\ \E draws \in SUBSET SampleDraws, includeBonus \in BOOLEAN :
          /\ Cardinality(draws) <= MaxDraws
          /\ ranked = [NoRanked EXCEPT !.draws = draws,
                                       !.includeBonus = includeBonus]

\* GET calls buildRanking on the values of the draws.
RankBuild ==
    /\ ranked.out = Undefined
    /\ ranked' = [ranked EXCEPT
                     !.out = Some(buildRanking(ranked.draws,
                                               ranked.includeBonus))]
    /\ UNCHANGED <<now, upN, cache, waiting, served, sync, loc, call, rng,
                   orphan, locatorRuns, anomalyAt, scripted>>

RankNext == RankBuild

RankSpec == RankInit /\ [][RankNext]_vars

\* ------------------------------------------------------------------------
\* LiveSpec: one sync under fair scheduling, the clock and the upstream at rest
\* ------------------------------------------------------------------------

\* A sync has just started, over a cache that holds the draws 1..seed, or
\* none, with an upstream that holds the draws 1..upN; requests await it.
LiveInit ==
    /\ now = CACHE_TTL_MS
    /\ upN \in DrawNos
    /\ \E seed \in 0..MAX_DRAW_GUESS :
          cache = [getCache EXCEPT
                      !.latest = seed, !.draws = 1..seed,
                      !.missing = IF seed = 0 THEN Undefined ELSE Some(<<>>),
                      !.inFlight = TRUE]
    /\ waiting \in 1..MaxWaiting
    /\ served = "none"
    /\ sync = [pc |-> "locate", latest |-> 0]
    /\ loc = findLatestDrawStart
    /\ call = NoCall
    /\ rng = NoRange
    /\ orphan = NoRange
    /\ locatorRuns = 1
    /\ anomalyAt = 0
    /\ scripted = FALSE
    /\ ranked = NoRanked

\* The steps of the sync and of its workers.
LiveNext ==
    \/ LocFetched
    \/ SyncAfterLocate
    \/ \E w \in Workers : RngFetched(w)
    \/ SyncAfterRange
    \/ \E w \in Workers : OrphanFetched(w)

\* A step of the sync: a fetchDraw that findLatestDraw or a worker of its
\* fetchRange awaits settles, or updateCache resumes.
SyncStep ==
    \/ LocFetched
    \/ SyncAfterLocate
    \/ \E w \in Workers : RngFetched(w)
    \/ SyncAfterRange

\* A step of a rejected fetchRange: a fetchDraw one of its workers awaits
\* settles.
OrphanStep == \E w \in Workers : OrphanFetched(w)

\* Every upstream call returns or times out (fetchJson aborts after timeoutMs
\* and fetchDraw gives up after RETRIES retries), and the event loop runs
\* every continuation that is ready.
Fairness == WF_vars(SyncStep) /\ WF_vars(OrphanStep)

\* One sync, from its start, under fair scheduling.
LiveSpec == LiveInit /\ [][LiveNext]_vars /\ Fairness

\* ------------------------------------------------------------------------
\* The claims
\* ------------------------------------------------------------------------

ToSet(seq) == {seq[i] : i \in 1..Len(seq)}

C2_NeverFails == served # "error"

\* A sync has seen an anomalous response less than BLOCK_TTL_MS ago.
InBlockWindow == anomalyAt # 0 /\ now < anomalyAt + BLOCK_TTL_MS

\* C3 (block cool-down): within BLOCK_TTL_MS of a sync seeing an anomalous
\* response, the cache reports blockedUntil = the time it was seen +
\* BLOCK_TTL_MS, and no GET starts a sync (so none issues an upstream request).
C3_BlockCooldown ==
    /\ [](InBlockWindow =>
            cache.blockedUntil = Some(anomalyAt + BLOCK_TTL_MS))
    /\ [][InBlockWindow => ~(~cache.inFlight /\ cache'.inFlight)]_vars

\* C4 (coverage): once a sync has completed, every integer of 1..cache.latest
\* is a key of cache.draws or an element of cache.missing.
C4_Coverage ==
    cache.missing # Undefined =>
        \A n \in 1..cache.latest :
            n \in cache.draws \/ n \in ToSet(Value(cache.missing))

\* C5 (monotonic latest): no step lowers cache.latest.
C5_LatestMonotonic == [][cache'.latest >= cache.latest]_vars

\* C6 (partial-failure accounting): when a fetchRange(start, end) that no
\* anomalous response disturbed completes, with F the numbers its fetchDraw
\* calls resolved to null for, every number of start..end has been claimed,
\* cache.draws has gained exactly the keys start..end minus F, and missing
\* lists exactly the numbers of F, each once.
C6_PartialFailureAccounting ==
    (sync.pc = "range" /\ AllReturned(rng) /\ rng.alone) =>
        /\ rng.current = rng.end + 1
        /\ rng.notFound \subseteq rng.start..rng.end
        /\ cache.draws = rng.before \cup ((rng.start..rng.end) \ rng.notFound)
        /\ ToSet(rng.missing) = rng.notFound
        /\ Len(rng.missing) = Cardinality(rng.notFound)

\* C6: a fetchRange of more numbers than workers has completed, some of its
\* numbers fetched and some not found.
C6_Witness ==
    /\ sync.pc = "range"
    /\ AllReturned(rng)
    /\ rng.alone
    /\ rng.end - rng.start >= CONCURRENCY
    /\ rng.notFound # {}
    /\ rng.notFound # rng.start..rng.end

\* C7 (locator correctness), under LocSpec: when every fetchDraw of the
\* locator answered as the predicate n <= N says, for the N of 1..MAX_DRAW_GUESS
\* the upstream had all along, findLatestDraw returns N, from every seed.
C7_LocatorCorrect ==
    (loc.phase = "returned" /\ loc.exact) => loc.ret = loc.upN

\* C7: the locator has returned N from a seed below N, after doubling.
C7_Witness ==
    /\ loc.phase = "returned"
    /\ loc.exact
    /\ loc.probe < loc.upN
    /\ loc.high > loc.probe * 2
    /\ loc.ret = loc.upN

\* C8 (retry budget), under FetchSpec: a fetchDraw call never calls the
\* Client more than RETRIES + 1 times; one whose every attempt failed with a
\* transient error ends only after exactly RETRIES + 1 Client calls, and
\* then resolves to null; the only error fetchDraw throws is the
\* HtmlResponseError.
C8_RetryBudget ==
    /\ call.calls <= RETRIES + 1
    /\ Settled(call) => call.result \in {"draw", "null", "HtmlResponseError"}
    /\ (Settled(call) /\ call.delays = call.calls) =>
           (call.calls = RETRIES + 1 /\ call.result = "null")

\* C8: a call has ended after every one of its attempts failed.
C8_Witness ==
    /\ Settled(call)
    /\ call.delays = call.calls
    /\ call.answer \in {"timeout", "http", "malformed"}

\* C9 (anomalous responses are not retried), under FetchSpec: once an attempt
\* of fetchDraw is answered with markup, the call has ended by throwing the
\* HtmlResponseError, with no backoff delay after that answer, and it never
\* calls the Client again.
C9_NoRetryOnAnomaly ==
    /\ call.lastError # "HtmlResponseError"
    /\ call.answer = "html" =>
           /\ Settled(call)
           /\ call.result = "HtmlResponseError"
           /\ call.delays = call.calls - 1

\* C9: a later attempt, after transient failures, was answered with markup.
C9_Witness ==
    /\ call.answer = "html"
    /\ call.calls > 1

\* C10 (range abort on block): once a fetchRange has been rejected, none of
\* its workers starts fetching another number.
C10_RangeAbort ==
    [][Active(orphan) # {} =>
         \A w \in Workers : orphan'.workers[w] \in {0, orphan.workers[w]}]_vars

\* findLatestDraw has thrown the HtmlResponseError and updateCache has not
\* resumed yet.
LocatorBlocked ==
    sync.pc = "locate" /\ loc.phase = "thrown"
                       /\ loc.error = "HtmlResponseError"

\* C11 (locator block handling): when findLatestDraw throws the
\* HtmlResponseError the sync awaits no further fetchDraw, and updateCache
\* resumes by setting blockedUntil = now + BLOCK_TTL_MS and updatedAt = now,
\* leaving latest, draws and missing as they are, clearing inFlight and
\* answering the requests that await it without an error.
C11_LocatorBlock ==
    /\ [](LocatorBlocked => (loc.no = 0 /\ Active(rng) = {}))
    /\ [][(LocatorBlocked /\ sync'.pc # sync.pc) =>
            /\ cache' = [cache EXCEPT !.blockedUntil = Some(now + BLOCK_TTL_MS),
                                      !.updatedAt = now, !.inFlight = FALSE]
            /\ served' = "ok"
            /\ waiting' = 0
            /\ sync'.pc = "idle"
            /\ loc'.no = 0
            /\ Active(rng') = {}]_vars

\* C11: a sync over a cache that holds draws has just ended in the catch
\* block for the HtmlResponseError of the locator.
C11_Witness ==
    /\ anomalyAt = now
    /\ cache.blockedUntil = Some(now + BLOCK_TTL_MS)
    /\ cache.updatedAt = now
    /\ ~cache.inFlight
    /\ served = "ok"
    /\ cache.latest > 0
    /\ cache.draws # {}

\* C12 (end-to-end scenario), under E2ESpec: with the draws 1..upN upstream
\* and every request for draw upN + 1 answered with markup, once the served
\* read has run a sync and answered, latest is upN, blockedUntil is the time
\* the markup was seen + BLOCK_TTL_MS, and the response has hasData true,
\* missingDraws empty and apiBlockedUntil not null.
C12_EndToEnd ==
    (scripted /\ served = "ok" /\ ~cache.inFlight) =>
        /\ cache.latest = upN
        /\ cache.blockedUntil = Some(anomalyAt + BLOCK_TTL_MS)
        /\ Response(cache).hasData
        /\ Response(cache).missingDraws = <<>>
        /\ ~Response(cache).apiBlockedUntil.isNull

\* blockedUntil is unset or not in the future.
NotBlocked ==
    cache.blockedUntil = Undefined \/ now >= Value(cache.blockedUntil)

\* C13 (apiBlockedUntil is null when not blocked): in every state where the
\* cache is fresh, so that a GET answers from it as it is, and blockedUntil
\* is unset or not in the future, the response reports apiBlockedUntil null.
C13_NullWhenNotBlocked ==
    (now - cache.updatedAt < CACHE_TTL_MS /\ NotBlocked) =>
        Response(cache).apiBlockedUntil.isNull

\* C14 (no key above latest): every step that completes a sync leaves no key
\* of cache.draws greater than cache.latest.
C14_KeysBelowLatest ==
    [][(/\ sync.pc # "idle"
        /\ sync'.pc = "idle"
        /\ served' = "ok"
        /\ cache'.blockedUntil = cache.blockedUntil) =>
           \A n \in cache'.draws : n <= cache'.latest]_vars

\* The numbers a fetchRange in progress has written into cache.draws: the
\* claimed numbers that no worker is fetching and that were not found.
Written(g) ==
    {n \in g.start..(g.current - 1) :
        n \notin g.notFound /\ \A w \in Workers : g.workers[w] # n}

\* C15 (keys written once, never removed): no step removes a key of
\* cache.draws, and a fetchRange never writes a key that cache.draws held
\* when it started.
C15_WrittenOnce ==
    /\ [][cache.draws \subseteq cache'.draws]_vars
    /\ [](sync.pc = "range" => Written(rng) \cap rng.before = {})

\* The cache is fresh.
FreshNow == now - cache.updatedAt < CACHE_TTL_MS

\* C16 (FRESH path): while the cache is fresh no sync is running and none
\* starts, no request awaits one, the locator and the fetchRange of a sync
\* await no fetchDraw, and no step changes a field of the cache (only the
\* workers of a rejected fetchRange, which no GET started, still write
\* cache.draws): a GET that arrives answers from the cache as it is.
C16_FreshPath ==
    /\ [](FreshNow => /\ ~cache.inFlight
                      /\ sync.pc = "idle"
                      /\ waiting = 0
                      /\ loc.no = 0
                      /\ Active(rng) = {})
    /\ [][FreshNow => /\ cache' = cache \/ orphan' # orphan
                      /\ sync' = sync
                      /\ loc' = loc
                      /\ rng' = rng
                      /\ waiting' = waiting
                      /\ served' \in {served, "ok"}]_vars

\* C16: a GET has been answered from a cache that holds draws and was
\* refreshed before now.
C16_Witness ==
    /\ FreshNow
    /\ cache.updatedAt < now
    /\ served = "ok"
    /\ cache.latest > 0
    /\ cache.draws # {}

\* C17 (the handle is cleared on every path): every step that ends a sync
\* leaves inFlight unset, inFlight is unset whenever no sync is running, and
\* the step that sets it starts a new sync with a new findLatestDraw.
C17_HandleCleared ==
    /\ [](sync.pc = "idle" => ~cache.inFlight)
    /\ [][(sync.pc # "idle" /\ sync'.pc = "idle") => ~cache'.inFlight]_vars
    /\ [][(~cache.inFlight /\ cache'.inFlight) =>
            /\ sync.pc = "idle"
            /\ sync'.pc = "locate"
            /\ loc'.phase = "probe"]_vars

\* C17: a sync has ended by completing and a later one by an error that
\* escaped, and the handle is unset.
C17_Witness ==
    /\ served = "error"
    /\ ~cache.inFlight
    /\ sync.pc = "idle"
    /\ cache.missing # Undefined
    /\ cache.latest > 0

\* A Draw of the data model: six numbers and a bonus number of 1..BallCount.
InShape(draw) ==
    /\ Len(draw.numbers) = 6
    /\ \A i \in 1..Len(draw.numbers) : draw.numbers[i] \in 1..BallCount
    /\ draw.bonus \in 1..BallCount

\* C18 (shape of a stored Draw), under FetchSpec: the Draw a fetchDraw call
\* resolves to, which is what its caller stores, has six numbers of
\* 1..BallCount and a bonus number of 1..BallCount: a payload with the
\* success flag and a number field outside that shape resolves to null.
C18_DrawShape ==
    (Settled(call) /\ call.result = "draw") =>
        InShape(fetchDrawOnce(call.answer).draw)

\* How often `num` is counted over the draws, told without the counting pass.
Tally(draws, num, includeBonus) ==
    Cardinality({p \in draws \X (1..6) : p[1].numbers[p[2]] = num})
    + Cardinality({d \in draws : includeBonus /\ d.bonus = num})

LocAwaits == loc.phase \in {"probe", "down", "double", "bisect"}

\* C20 (never past MAX_DRAW_GUESS), under LocSpec: from every seed and
\* whatever the fetchDraw calls resolve to, every number findLatestDraw
\* asks for is of 1..MAX_DRAW_GUESS, and when the doubling finds the draw
\* MAX_DRAW_GUESS findLatestDraw returns MAX_DRAW_GUESS at once.
C20_WithinGuess ==
    /\ [](LocAwaits => loc.no \in 1..MAX_DRAW_GUESS)
    /\ [][(/\ loc.phase = "double"
           /\ loc.no = MAX_DRAW_GUESS
           /\ loc'.phase # "thrown"
           /\ loc'.low = MAX_DRAW_GUESS) =>
              (loc'.phase = "returned" /\ loc'.ret = MAX_DRAW_GUESS)]_vars

\* C20: the doubling from a seed below MAX_DRAW_GUESS has found the draw
\* MAX_DRAW_GUESS and findLatestDraw has returned it.
C20_Witness ==
    /\ loc.phase = "returned"
    /\ loc.probe < MAX_DRAW_GUESS
    /\ loc.low = MAX_DRAW_GUESS
    /\ loc.high = MAX_DRAW_GUESS
    /\ loc.ret = MAX_DRAW_GUESS

\* The workers of g that await the fetchDraw of n.
Fetching(g, n) == {w \in Workers : g.workers[w] = n}

\* The counter of g has handed out a number to one worker, or has not moved.
CounterStep(g, h) ==
    \/ h.current = g.current /\ \A w \in Workers : h.workers[w] \in {0, g.workers[w]}
    \/ /\ h.current = g.current + 1
       /\ g.current <= g.end
       /\ Cardinality(Fetching(h, g.current)) = 1
       /\ \A w \in Workers : h.workers[w] \in {0, g.workers[w], g.current}

LocVariant(l) ==
    CASE l.phase = "probe" -> 4 * MAX_DRAW_GUESS + 4
      [] l.phase = "double" -> 2 * MAX_DRAW_GUESS + 1 - l.low
      [] l.phase = "bisect" -> l.high - l.low
      [] l.phase = "down" -> l.high - l.low + 1
      [] OTHER -> 0

\* What is left of a fetchRange: the numbers not claimed, twice, and the
\* workers that have not returned.
RangeVariant(g) == 2 * (g.end + 1 - g.current) + Cardinality(Active(g))

\* Whatever the fetchDraw it awaits answers, a findLatestDraw is left with
\* less to search and a worker's fetchRange with less to fetch.
Progress ==
    /\ loc.no # 0 =>
          /\ \A found \in BOOLEAN :
                LocVariant(findLatestDrawResume(loc, found)) < LocVariant(loc)
          /\ LocVariant(findLatestDrawThrow(loc, "Error")) < LocVariant(loc)
    /\ \A g \in {rng, orphan} : \A w \in Active(g) :
          /\ RangeVariant(WorkerDraw(g, w)) < RangeVariant(g)
          /\ RangeVariant(WorkerNull(g, w)) < RangeVariant(g)
          /\ RangeVariant(WorkerThrow(g, w)) < RangeVariant(g)

\* C22 (sync termination), under LiveSpec: every step of the Locator's loops
\* and of the workers' claim loop leaves less to do whatever the upstream
\* answers, every sync that has started ends, every request that awaits it is
\* answered, and every worker of a fetchRange, rejected or not, returns.
C22_SyncTerminates ==
    /\ []Progress
    /\ cache.inFlight ~> ~cache.inFlight
    /\ (waiting > 0) ~> (waiting = 0)
    /\ (Active(rng) # {}) ~> (Active(rng) = {})
    /\ (Active(orphan) # {}) ~> (Active(orphan) = {})

\* C22: a sync that started from an empty cache has gone through the
\* doubling and the binary search, and every worker of its fetchRange of
\* more numbers than workers has returned; requests still await it.
C22_Witness ==
    /\ sync.pc = "range"
    /\ sync.latest = MAX_DRAW_GUESS - 1
    /\ rng.start = 1
    /\ rng.end = sync.latest
    /\ rng.end - rng.start + 1 > CONCURRENCY
    /\ AllReturned(rng)
    /\ cache.draws = 1..rng.end
    /\ cache.inFlight
    /\ waiting > 0

\* A block was recorded less than CACHE_TTL_MS ago: Block sets blockedUntil
\* to the time of recording plus BLOCK_TTL_MS.
BlockedLately ==
    /\ cache.blockedUntil # Undefined
    /\ now - (Value(cache.blockedUntil) - BLOCK_TTL_MS) < CACHE_TTL_MS

\* A step in which findLatestDraw, a worker of the sync's fetchRange or a
\* worker of a rejected fetchRange calls fetchDraw, and with it the upstream.
IssuesRequest ==
    \/ loc'.no # 0 /\ loc' # loc
    \/ \E w \in Workers :
          rng'.workers[w] # 0 /\ rng'.workers[w] # rng.workers[w]
    \/ /\ Active(orphan) # {}
       /\ \E w \in Workers :
             orphan'.workers[w] # 0 /\ orphan'.workers[w] # orphan.workers[w]

\* C23 (the blocked branch is dead, a block lasts CACHE_TTL): in every state
\* in which a GET would start a sync (the cache is stale and no sync is in
\* flight) blockedUntil is unset or not in the future, so updateCache does
\* not take its blocked branch; and no step calls the upstream while a block
\* was recorded less than CACHE_TTL_MS ago.
C23_BlockLastsCacheTtl ==
    /\ []((~IsFresh /\ ~JoinsInFlight) => ~IsBlocked)
    /\ [][BlockedLately => ~IssuesRequest]_vars
====
